---- MODULE Spec2Model ----
(***************************************************************************)
(* Parquet modular encryption core (parquet/src/encryption).               *)
(*                                                                         *)
(* The module models                                                       *)
(*   - CounterNonce and RingGcmBlockEncryptor / RingGcmBlockDecryptor      *)
(*     (ciphers.rs), with the encrypted-module frame                       *)
(*        length(4) | nonce(12) | ciphertext | tag(16);                    *)
(*   - create_module_aad and its callers (ciphers.rs);                     *)
(*   - FileDecryptor and update_aad (ciphers.rs);                          *)
(*   - FileEncryptor, its key routing and get_column_crypto_metadata       *)
(*     (encrypt.rs);                                                       *)
(*   - PageEncryptor (page_encryptor.rs), called in any order and called   *)
(*     in the order of a column chunk.                                     *)
(*                                                                         *)
(* Byte strings are sequences of integers 0..255.  The 128-bit nonce       *)
(* counter is a 16-byte word; so that a nonce sequence can be driven to    *)
(* exhaustion, each of its bytes ranges over CounterRadix values instead   *)
(* of 256.  All other encodings (i32, i16) use full octets.                *)
(*                                                                         *)
(* AES-128-GCM itself is the `ring` library.  It is modelled by a stream   *)
(* cipher (keystream added byte-wise) and a polynomial authenticator over  *)
(* nonce, AAD and ciphertext, keyed byte-wise.                             *)
(***************************************************************************)
EXTENDS Integers, Sequences, FiniteSets, TLC

(***************************************************************************)
(* Bounds of the model                                                     *)
(***************************************************************************)
\* values one byte of the nonce counter can take (256 in the program)
CounterRadix == 2
\* encrypt calls followed on one block encryptor in SpecCipher and Spec
MaxCalls == 3
\* length of the long plaintext (makes the length prefix use its second byte)
LongLen == 230
\* failed calls followed on an exhausted nonce sequence
MaxFails == 2
\* pages written by one PageEncryptor
MaxPages == 2
\* encryptions recorded for one file
MaxSealed == 2
\* update_aad is followed while aad_file_unique is no longer than this
MaxAadLen == 9

(***************************************************************************)
(* Program constants (ciphers.rs)                                          *)
(***************************************************************************)
NONCE_LEN == 12
TAG_LEN == 16
SIZE_LEN == 4
NON_PAGE_ORDINAL == -1
\* size of u128 in bytes
U128_LEN == 16
\* AES_128_GCM key length in bytes
KEY_LEN == 16
\* i16::MAX
I16_MAX == 32767

RECURSIVE Pow(_, _)
Pow(b, n) == IF n = 0 THEN 1 ELSE b * Pow(b, n - 1)

\* 2^128 at the model's byte width
U128_MOD == Pow(CounterRadix, U128_LEN)
\* 2^96 at the model's byte width
NONCE_MOD == Pow(CounterRadix, NONCE_LEN)
\* const RIGHT_TWELVE: the low twelve bytes set
RIGHT_TWELVE == NONCE_MOD - 1

\* x & RIGHT_TWELVE
MaskTwelve(x) == x % (RIGHT_TWELVE + 1)

\* u128::wrapping_add
wrapping_add(x, y) == (x + y) % U128_MOD

\* the place values of the sixteen counter bytes
PlaceValue == [i \in 1..U128_LEN |-> Pow(CounterRadix, i - 1)]

\* u128::to_le_bytes: sixteen counter bytes, least significant first
u128_to_le_bytes(x) == [i \in 1..U128_LEN |-> (x \div PlaceValue[i]) % CounterRadix]

RECURSIVE FromLe(_, _)
FromLe(buf, radix) ==
    IF buf = << >> THEN 0 ELSE Head(buf) + radix * FromLe(Tail(buf), radix)

\* u128::from_ne_bytes on a little-endian platform
u128_from_ne_bytes(buf) == FromLe(buf, CounterRadix)

\* i32::to_le_bytes / i16::to_le_bytes: two's complement octets (\div floors)
i32_to_le_bytes(x) == [i \in 1..4 |-> (x \div Pow(256, i - 1)) % 256]
\* variant: the low byte is shifted out
i16_to_le_bytes_shifted(x) == [i \in 1..2 |-> (x \div 256) % 256]

i16_to_le_bytes(x) == [i \in 1..2 |-> (x \div Pow(256, i - 1)) % 256]

\* `x as i16` for an i32 x: keep the low 16 bits, reinterpret the sign
as_i16(x) == LET low == x % 65536 IN IF low > I16_MAX THEN low - 65536 ELSE low

\* i32::from_le_bytes for a non-negative value (the reader of a length prefix)
i32_from_le_bytes(buf) == FromLe(buf, 256)

(***************************************************************************)
(* Results: Ok(v), Err(e) returned to the caller, or a panic (unwrap on    *)
(* an Err).                                                                *)
(***************************************************************************)
Ok(v) == [kind |-> "ok", val |-> v]
Err(e) == [kind |-> "err", err |-> e]
Panic(e) == [kind |-> "panic", err |-> e]
IsOk(r) == r.kind = "ok"
IsErr(r) == r.kind = "err"
IsPanic(r) == r.kind = "panic"

(***************************************************************************)
(* CounterNonce (ciphers.rs)                                               *)
(***************************************************************************)
\* CounterNonce::new; buf is what the RNG filled in
CounterNonce_new(buf) ==
    LET start == MaskTwelve(u128_from_ne_bytes(buf))
        counter == wrapping_add(start, 1)
    IN  [start |-> start, counter |-> counter]

\* CounterNonce::get_bytes
get_bytes(self) == SubSeq(u128_to_le_bytes(self.counter), 1, NONCE_LEN)

\* variant: the counter is not moved
advance_counter_stuck(self) == self

\* NonceSequence::advance: the result and the nonce sequence afterwards
advance_counter(self) == [self EXCEPT !.counter = wrapping_add(self.counter, 1)]

\* variant: exhaustion is tested on the unmasked words
advance_unmasked(self) ==
    IF self.counter = self.start
    THEN [res |-> Err("Unspecified"), self |-> self]
    ELSE [res |-> Ok(get_bytes(self)), self |-> advance_counter(self)]

advance(self) ==
    IF MaskTwelve(self.counter) = MaskTwelve(self.start)
    THEN [res |-> Err("Unspecified"), self |-> self]
    ELSE [res |-> Ok(get_bytes(self)), self |-> advance_counter(self)]

(***************************************************************************)
(* AES-128-GCM as used through ring::aead::LessSafeKey                     *)
(***************************************************************************)
\* UnboundKey::new(&AES_128_GCM, key_bytes) accepts 16-byte keys only
KeyAccepted(key_bytes) == Len(key_bytes) = KEY_LEN

KeyStream(key, nonce, i) ==
    (key[((i - 1) % KEY_LEN) + 1] + nonce[((i - 1) % NONCE_LEN) + 1] + i) % 256

\* the ciphertext has the length of the plaintext
SealBytes(key, nonce, plaintext) ==
    [i \in 1..Len(plaintext) |-> (plaintext[i] + KeyStream(key, nonce, i)) % 256]

OpenBytes(key, nonce, ciphertext) ==
    [i \in 1..Len(ciphertext) |-> (ciphertext[i] - KeyStream(key, nonce, i)) % 256]

RECURSIVE PowMod(_, _)
PowMod(x, n) ==
    IF n = 0 THEN 1
    ELSE LET h == PowMod(x, n \div 2)
         IN  IF n % 2 = 0 THEN (h * h) % 251 ELSE (h * h * x) % 251

\* polynomial hash of data[lo..hi] at the point x, modulo the prime 251
RECURSIVE PolyHash(_, _, _, _)
PolyHash(data, x, lo, hi) ==
    IF lo > hi THEN 0
    ELSE IF lo = hi THEN (data[lo] + 1) % 251
    ELSE LET mid == (lo + hi) \div 2
         IN  (PolyHash(data, x, lo, mid) * PowMod(x, hi - mid)
                + PolyHash(data, x, mid + 1, hi)) % 251

\* the 16-byte tag over (AAD, ciphertext) under the nonce: byte j is the
\* key byte plus a line through two polynomial hashes of the data
Tag(key, nonce, aad, ciphertext) ==
    LET data == nonce \o <<Len(aad)>> \o aad \o ciphertext
        h1 == PolyHash(data, 7, 1, Len(data))
        h2 == PolyHash(data, 11, 1, Len(data))
    IN  [j \in 1..TAG_LEN |-> (key[j] + j * h1 + h2) % 251]

\* LessSafeKey::seal_in_place_separate_tag: ciphertext in place, tag returned
seal_in_place_separate_tag(key, nonce, aad, in_out) ==
    LET ct == SealBytes(key, nonce, in_out)
    IN  [in_out |-> ct, tag |-> Tag(key, nonce, aad, ct)]

\* LessSafeKey::open_in_place on ciphertext followed by tag
open_in_place(key, nonce, aad, in_out) ==
    IF Len(in_out) < TAG_LEN THEN Err("Unspecified")
    ELSE LET n == Len(in_out) - TAG_LEN
             ct == SubSeq(in_out, 1, n)
             tag == SubSeq(in_out, n + 1, Len(in_out))
         IN  IF tag = Tag(key, nonce, aad, ct)
             THEN Ok(OpenBytes(key, nonce, ct) \o tag)
             ELSE Err("Unspecified")

(***************************************************************************)
(* RingGcmBlockEncryptor / RingGcmBlockDecryptor (ciphers.rs)              *)
(***************************************************************************)
\* RingGcmBlockEncryptor::new; buf is what the RNG fills in for the nonce
RingGcmBlockEncryptor_new(key_bytes, buf) ==
    IF KeyAccepted(key_bytes)
    THEN Ok([key |-> key_bytes, nonce_sequence |-> CounterNonce_new(buf)])
    ELSE Panic("Unspecified")

\* variant: the length prefix leaves the nonce out
encrypt_frame_short_prefix(key, nonce, plaintext, aad) ==
    LET ciphertext_len == Len(plaintext) + TAG_LEN
        result == i32_to_le_bytes(ciphertext_len) \o nonce \o plaintext
        sealed == seal_in_place_separate_tag(key, nonce, aad,
                      SubSeq(result, SIZE_LEN + NONCE_LEN + 1, Len(result)))
    IN  SubSeq(result, 1, SIZE_LEN + NONCE_LEN) \o sealed.in_out \o sealed.tag

\* the frame of BlockEncryptor::encrypt once the nonce is drawn
encrypt_frame(key, nonce, plaintext, aad) ==
    LET ciphertext_len == Len(plaintext) + NONCE_LEN + TAG_LEN
        result == i32_to_le_bytes(ciphertext_len) \o nonce \o plaintext
        sealed == seal_in_place_separate_tag(key, nonce, aad,
                      SubSeq(result, SIZE_LEN + NONCE_LEN + 1, Len(result)))
    IN  SubSeq(result, 1, SIZE_LEN + NONCE_LEN) \o sealed.in_out \o sealed.tag

\* BlockEncryptor::encrypt: the result and the encryptor afterwards
encrypt(self, plaintext, aad) ==
    LET adv == advance(self.nonce_sequence)
    IN  IF IsErr(adv.res)
        THEN [res |-> Panic("Unspecified"), self |-> self]
        ELSE [res |-> Ok(encrypt_frame(self.key, adv.res.val, plaintext, aad)),
              self |-> [self EXCEPT !.nonce_sequence = adv.self]]

\* RingGcmBlockDecryptor::new
RingGcmBlockDecryptor_new(key_bytes) ==
    IF KeyAccepted(key_bytes) THEN Ok([key |-> key_bytes]) ELSE Panic("Unspecified")

\* where decrypt reads the nonce and the sealed bytes in the frame
decrypt_nonce(frame) == SubSeq(frame, SIZE_LEN + 1, SIZE_LEN + NONCE_LEN)
\* variant: the sealed bytes are taken to start right after the length
decrypt_sealed_from_nonce(frame) == SubSeq(frame, SIZE_LEN + 1, Len(frame))

decrypt_sealed(frame) == SubSeq(frame, SIZE_LEN + NONCE_LEN + 1, Len(frame))

\* BlockDecryptor::decrypt
decrypt(self, length_and_ciphertext, aad) ==
    IF Len(length_and_ciphertext) < SIZE_LEN + NONCE_LEN + TAG_LEN
    THEN Panic("short frame")
    ELSE LET opened == open_in_place(self.key, decrypt_nonce(length_and_ciphertext),
                                     aad, decrypt_sealed(length_and_ciphertext))
         IN  IF IsErr(opened)
             THEN Panic("Unspecified")
             ELSE Ok(SubSeq(opened.val, 1, Len(opened.val) - TAG_LEN))

(***************************************************************************)
(* ModuleType and the module AAD (ciphers.rs)                              *)
(***************************************************************************)
Footer == 0
ColumnMetaData == 1
DataPage == 2
DictionaryPage == 3
DataPageHeader == 4
DictionaryPageHeader == 5
ColumnIndex == 6
OffsetIndex == 7
BloomFilterHeader == 8
BloomFilterBitset == 9

ModuleType == Footer..BloomFilterBitset

\* variant: every page module carries a page ordinal
HasPageOrdinal_AllPages(module_type) ==
    module_type \in {DataPage, DictionaryPage, DataPageHeader, DictionaryPageHeader}

\* variant: only the page body carries a page ordinal
HasPageOrdinal_BodyOnly(module_type) == module_type = DataPage

\* the module types whose AAD carries a page ordinal
HasPageOrdinal(module_type) ==
    ~ (module_type # DataPageHeader /\ module_type # DataPage)

\* create_module_aad
create_module_aad(file_aad, module_type, row_group_ordinal, column_ordinal, page_ordinal) ==
    LET module_buf == <<module_type>> IN
    IF module_buf[1] = Footer
    THEN Ok(file_aad \o module_buf)
    ELSE IF row_group_ordinal < 0 THEN Err("Wrong row group ordinal")
    ELSE IF row_group_ordinal > I16_MAX THEN Err("more than i16::MAX row groups")
    ELSE IF column_ordinal < 0 THEN Err("Wrong column ordinal")
    ELSE IF column_ordinal > I16_MAX THEN Err("more than i16::MAX columns")
    ELSE IF ~ HasPageOrdinal(module_buf[1])
    THEN Ok(file_aad \o module_buf \o i16_to_le_bytes(row_group_ordinal)
                     \o i16_to_le_bytes(column_ordinal))
    ELSE IF page_ordinal < 0 THEN Err("Wrong page ordinal")
    ELSE IF page_ordinal > I16_MAX THEN Err("more than i16::MAX pages")
    ELSE Ok(file_aad \o module_buf \o i16_to_le_bytes(row_group_ordinal)
                     \o i16_to_le_bytes(column_ordinal)
                     \o i16_to_le_bytes(as_i16(page_ordinal)))

\* create_footer_aad
create_footer_aad(file_aad) ==
    create_module_aad(file_aad, Footer, -1, -1, NON_PAGE_ORDINAL)

\* create_page_aad
create_page_aad(file_aad, module_type, row_group_ordinal, column_ordinal, page_ordinal) ==
    create_module_aad(file_aad, module_type, row_group_ordinal, column_ordinal, page_ordinal)

(***************************************************************************)
(* Option values                                                           *)
(***************************************************************************)
None == [some |-> FALSE]
Some(v) == [some |-> TRUE, val |-> v]

(***************************************************************************)
(* FileDecryptionProperties and FileDecryptor (ciphers.rs)                 *)
(***************************************************************************)
\* FileDecryptionProperties::builder().with_footer_key(value).build()
with_footer_key(value) == [footer_key |-> Some(value)]

\* FileDecryptor::new
FileDecryptor_new(decryption_properties, aad_file_unique, aad_prefix) ==
    IF ~ decryption_properties.footer_key.some
    THEN Panic("unwrap on None")
    ELSE LET footer_decryptor ==
                 RingGcmBlockDecryptor_new(decryption_properties.footer_key.val)
         IN  IF ~ IsOk(footer_decryptor) THEN footer_decryptor
             ELSE Ok([decryption_properties |-> decryption_properties,
                      footer_decryptor |-> footer_decryptor.val,
                      aad_file_unique |-> aad_file_unique,
                      aad_prefix |-> aad_prefix])

\* FileDecryptor::footer_decryptor
footer_decryptor(self) == self.footer_decryptor

\* FileDecryptor::aad_file_unique
aad_file_unique(self) == self.aad_file_unique

\* FileDecryptor::aad_prefix
aad_prefix(self) == self.aad_prefix

\* FileDecryptor::update_aad: the result and the decryptor afterwards; the
\* aad argument is shadowed before it is read, and debug_assertions says
\* whether debug_assert! is compiled in
update_aad(self, aad, row_group_ordinal, column_ordinal, module_type, debug_assertions) ==
    IF debug_assertions /\ aad_file_unique(self) = << >>
    THEN [res |-> Panic("AAD is empty"), self |-> self]
    ELSE LET module_aad == create_module_aad(aad_file_unique(self), module_type,
                               row_group_ordinal, column_ordinal, NON_PAGE_ORDINAL)
         IN  IF IsErr(module_aad)
             THEN [res |-> Panic(module_aad.err), self |-> self]
             ELSE [res |-> Ok(<< >>),
                   self |-> [self EXCEPT !.aad_file_unique = module_aad.val]]

(***************************************************************************)
(* State                                                                   *)
(***************************************************************************)
VARIABLES
    file_encryptor,   \* Option<FileEncryptor>: properties, aad_file_unique, file_aad
    page_encryptor,   \* Option<PageEncryptor>: row_group_index, column_index,
                      \*   column_path, page_index
    block_encryptor,  \* Option<RingGcmBlockEncryptor> held by the caller:
                      \*   key, nonce_sequence
    calls,            \* successful advances of block_encryptor's nonce sequence
    fails,            \* failed advances of block_encryptor's nonce sequence
    nonces,           \* the first nonces block_encryptor emitted, in order
    sealed,           \* the <<key, nonce>> pairs sealed so far for this file
    nonce_shared,     \* TRUE once a <<key, nonce>> pair was sealed twice
    file_decryptor,   \* Option<FileDecryptor>: decryption_properties,
                      \*   footer_decryptor, aad_file_unique, aad_prefix
    increments,       \* increment_page calls made on page_encryptor
    emitted,          \* the modules a column chunk writer got from
                      \*   page_encryptor, in file order
    out               \* the last operation, its arguments and its result

vars == <<file_encryptor, page_encryptor, block_encryptor, calls, fails, nonces,
          sealed, nonce_shared, file_decryptor, increments, emitted, out>>

Idle == [op |-> "none"]

(***************************************************************************)
(* Inputs                                                                  *)
(***************************************************************************)
\* what SystemRandom may put in the sixteen-byte buffer of CounterNonce::new
BufZero == [i \in 1..U128_LEN |-> 0]
BufMax == [i \in 1..U128_LEN |-> CounterRadix - 1]
BufOne == [i \in 1..U128_LEN |-> IF i = 1 THEN 1 ELSE 0]
BufHigh == [i \in 1..U128_LEN |-> IF i = NONCE_LEN + 1 THEN 1 ELSE 0]

\* 16-byte keys
KeyF == [i \in 1..KEY_LEN |-> 0]
KeyA == [i \in 1..KEY_LEN |-> i]
Keys == {KeyF, KeyA}

Plaintexts == {<< >>, <<104>>, <<104, 105>>, [i \in 1..LongLen |-> i % 256]}
Aads == {<< >>, <<97>>, <<98>>}

(***************************************************************************)
(* Block level: one RingGcmBlockEncryptor, and decryptors                  *)
(***************************************************************************)
RecordNonce(hist, nonce) == IF Len(hist) < MaxCalls THEN Append(hist, nonce) ELSE hist

\* RingGcmBlockEncryptor::new(key_bytes)
NewEncryptor(key_bytes, buf) ==
    LET r == RingGcmBlockEncryptor_new(key_bytes, buf) IN
    /\ block_encryptor' = IF IsOk(r) THEN Some(r.val) ELSE block_encryptor
    /\ calls' = 0
    /\ fails' = 0
    /\ nonces' = << >>
    /\ out' = [op |-> "new", key |-> key_bytes, res |-> r]
    /\ UNCHANGED <<file_decryptor, file_encryptor, page_encryptor, increments, emitted,
                   sealed, nonce_shared>>

\* nonce_sequence.advance() called directly on the held encryptor's sequence
Advance ==
    /\ block_encryptor.some
    /\ LET adv == advance(block_encryptor.val.nonce_sequence) IN
       /\ IsErr(adv.res) => fails < MaxFails
       /\ block_encryptor' = Some([block_encryptor.val EXCEPT !.nonce_sequence = adv.self])
       /\ calls' = IF IsOk(adv.res) THEN calls + 1 ELSE calls
       /\ fails' = IF IsOk(adv.res) THEN fails ELSE fails + 1
       /\ nonces' = IF IsOk(adv.res) THEN RecordNonce(nonces, adv.res.val) ELSE nonces
       /\ out' = [op |-> "advance", res |-> adv.res]
    /\ UNCHANGED <<file_decryptor, file_encryptor, page_encryptor, increments, emitted,
                   sealed, nonce_shared>>

\* block_encryptor.encrypt(plaintext, aad)
EncryptBlock(plaintext, aad) ==
    /\ block_encryptor.some
    /\ LET r == encrypt(block_encryptor.val, plaintext, aad) IN
       /\ IsPanic(r.res) => fails < MaxFails
       /\ block_encryptor' = Some(r.self)
       /\ calls' = IF IsOk(r.res) THEN calls + 1 ELSE calls
       /\ fails' = IF IsOk(r.res) THEN fails ELSE fails + 1
       /\ nonces' = IF IsOk(r.res)
                    THEN RecordNonce(nonces, decrypt_nonce(r.res.val))
                    ELSE nonces
       /\ out' = [op |-> "encrypt", key |-> block_encryptor.val.key,
                  plaintext |-> plaintext, aad |-> aad, res |-> r.res]
    /\ UNCHANGED <<file_decryptor, file_encryptor, page_encryptor, increments, emitted,
                   sealed, nonce_shared>>

\* RingGcmBlockDecryptor::new(key_bytes).decrypt(frame, aad) on the frame just
\* returned by encrypt; `of` keeps what the frame was made from
DecryptBlock(key_bytes, aad) ==
    /\ out.op = "encrypt"
    /\ IsOk(out.res)
    /\ LET d == RingGcmBlockDecryptor_new(key_bytes) IN
       out' = [op |-> "decrypt", key |-> key_bytes, aad |-> aad,
               of |-> [key |-> out.key, plaintext |-> out.plaintext, aad |-> out.aad],
               res |-> IF IsOk(d) THEN decrypt(d.val, out.res.val, aad) ELSE d]
    /\ UNCHANGED <<file_decryptor, file_encryptor, page_encryptor, increments, emitted,
                   block_encryptor, calls, fails,
                   nonces, sealed, nonce_shared>>

InitBlock(bufs) ==
    /\ file_encryptor = None
    /\ page_encryptor = None
    /\ \E key_bytes \in Keys, buf \in bufs :
          block_encryptor = Some(RingGcmBlockEncryptor_new(key_bytes, buf).val)
    /\ calls = 0
    /\ fails = 0
    /\ nonces = << >>
    /\ sealed = {}
    /\ nonce_shared = FALSE
    /\ file_decryptor = None
    /\ increments = 0
    /\ emitted = << >>
    /\ out = Idle

\* a nonce sequence driven as far as it goes
\* the frames of the first calls and of the calls at the end of the sequence
\* are followed; in between the sequence is advanced directly
NextNonce ==
    \/ Advance
    \/ (calls < MaxCalls \/ calls + MaxCalls > RIGHT_TWELVE) /\ EncryptBlock(<< >>, << >>)

\* a buffer with bits above the twelfth byte, and the all-ones buffer
NonceBufs == {BufHigh, BufMax}

InitNonce == InitBlock(NonceBufs)

SpecNonce == InitNonce /\ [][NextNonce]_vars

CipherBufs == {BufOne, BufMax}

\* encryptors of any key, a few frames each, decrypted under any key and AAD
NextCipher ==
    \/ \E key_bytes \in Keys, buf \in CipherBufs : NewEncryptor(key_bytes, buf)
    \/ calls < MaxCalls /\ \E plaintext \in Plaintexts, aad \in Aads :
          EncryptBlock(plaintext, aad)
    \/ \E key_bytes \in Keys, aad \in Aads : DecryptBlock(key_bytes, aad)

InitCipher == InitBlock(CipherBufs)

SpecCipher == InitCipher /\ [][NextCipher]_vars

(***************************************************************************)
(* The module AAD as a function of its inputs                              *)
(***************************************************************************)
FileAads == {<<70, 73, 76, 69>>, <<1, 2, 3, 4, 5, 6, 7, 8>>}
\* i16 arguments
Ordinals == {-32768, -1, 0, 1, 3, 258, 32767}
\* i32 arguments
PageOrdinals == {-65536, -1, 0, 7, 258, 32767, 32768, 65543}

\* the three entry points, applied to the inputs drawn by InitAad
CreateModuleAad ==
    /\ out.op = "input"
    /\ out' = [out EXCEPT !.op = "create_module_aad",
                          !.res = create_module_aad(out.file_aad, out.module_type,
                                      out.row_group_ordinal, out.column_ordinal,
                                      out.page_ordinal)]
    /\ UNCHANGED <<file_decryptor, file_encryptor, page_encryptor, increments, emitted,
                   block_encryptor, calls, fails,
                   nonces, sealed, nonce_shared>>

CreateFooterAad ==
    /\ out.op = "input"
    /\ out' = [out EXCEPT !.op = "create_footer_aad",
                          !.res = create_footer_aad(out.file_aad)]
    /\ UNCHANGED <<file_decryptor, file_encryptor, page_encryptor, increments, emitted,
                   block_encryptor, calls, fails,
                   nonces, sealed, nonce_shared>>

CreatePageAad ==
    /\ out.op = "input"
    /\ out' = [out EXCEPT !.op = "create_page_aad",
                          !.res = create_page_aad(out.file_aad, out.module_type,
                                      out.row_group_ordinal, out.column_ordinal,
                                      out.page_ordinal)]
    /\ UNCHANGED <<file_decryptor, file_encryptor, page_encryptor, increments, emitted,
                   block_encryptor, calls, fails,
                   nonces, sealed, nonce_shared>>

InitAad ==
    /\ file_encryptor = None
    /\ page_encryptor = None
    /\ block_encryptor = None
    /\ calls = 0
    /\ fails = 0
    /\ nonces = << >>
    /\ sealed = {}
    /\ nonce_shared = FALSE
    /\ file_decryptor = None
    /\ increments = 0
    /\ emitted = << >>
    /\ \E file_aad \in FileAads, module_type \in ModuleType,
          row_group_ordinal \in Ordinals, column_ordinal \in Ordinals,
          page_ordinal \in PageOrdinals :
          out = [op |-> "input", file_aad |-> file_aad, module_type |-> module_type,
                 row_group_ordinal |-> row_group_ordinal,
                 column_ordinal |-> column_ordinal,
                 page_ordinal |-> page_ordinal, res |-> None]

NextAad ==
    \/ CreateModuleAad
    \/ CreateFooterAad
    \/ CreatePageAad

SpecAad == InitAad /\ [][NextAad]_vars

(***************************************************************************)
(* Reader side: one FileDecryptor                                          *)
(***************************************************************************)
\* aad_file_unique and aad_prefix as read from the file's crypto metadata
DecryptorUniques == {<< >>, <<1, 2, 3, 4, 5, 6, 7, 8>>}
DecryptorPrefixes == {<< >>, <<80>>}
\* i16 arguments of update_aad
DecryptorOrdinals == {-1, 0, 1}
DecryptorModules == {Footer, ColumnMetaData, DataPage}

\* FileDecryptor::update_aad(aad, row_group_ordinal, column_ordinal, module_type)
UpdateAad(aad, row_group_ordinal, column_ordinal, module_type, debug_assertions) ==
    /\ file_decryptor.some
    /\ Len(file_decryptor.val.aad_file_unique) <= MaxAadLen
    /\ LET r == update_aad(file_decryptor.val, aad, row_group_ordinal, column_ordinal,
                           module_type, debug_assertions) IN
       /\ file_decryptor' = Some(r.self)
       /\ out' = [op |-> "update_aad", module_type |-> module_type,
                  row_group_ordinal |-> row_group_ordinal,
                  column_ordinal |-> column_ordinal, res |-> r.res]
    /\ UNCHANGED <<file_encryptor, page_encryptor, increments, emitted,
                   block_encryptor, calls, fails, nonces, sealed, nonce_shared>>

\* one of the accessors &self of FileDecryptor
Accessor(op, res) ==
    /\ file_decryptor.some
    /\ out' = [op |-> op, res |-> res]
    /\ UNCHANGED <<file_decryptor, file_encryptor, page_encryptor, increments, emitted,
                   block_encryptor, calls, fails, nonces, sealed, nonce_shared>>

\* FileDecryptor::footer_decryptor()
FooterDecryptor == Accessor("footer_decryptor", footer_decryptor(file_decryptor.val))

\* FileDecryptor::aad_file_unique()
AadFileUnique == Accessor("aad_file_unique", aad_file_unique(file_decryptor.val))

\* FileDecryptor::aad_prefix()
AadPrefix == Accessor("aad_prefix", aad_prefix(file_decryptor.val))

InitDecryptor ==
    /\ file_encryptor = None
    /\ page_encryptor = None
    /\ block_encryptor = None
    /\ calls = 0
    /\ fails = 0
    /\ nonces = << >>
    /\ sealed = {}
    /\ nonce_shared = FALSE
    /\ \E unique \in DecryptorUniques, prefix \in DecryptorPrefixes :
          file_decryptor = Some(FileDecryptor_new(with_footer_key(KeyF), unique, prefix).val)
    /\ increments = 0
    /\ emitted = << >>
    /\ out = Idle

NextDecryptor ==
    \/ \E aad \in Aads, row_group_ordinal \in DecryptorOrdinals,
          column_ordinal \in DecryptorOrdinals, module_type \in DecryptorModules,
          debug_assertions \in BOOLEAN :
          UpdateAad(aad, row_group_ordinal, column_ordinal, module_type, debug_assertions)
    \/ FooterDecryptor
    \/ AadFileUnique
    \/ AadPrefix

SpecDecryptor == InitDecryptor /\ [][NextDecryptor]_vars

(***************************************************************************)
(* EncryptionKey, FileEncryptionProperties, FileEncryptor (encrypt.rs)     *)
(***************************************************************************)
\* EncryptionKey::new
EncryptionKey_new(key) == [key |-> key, key_metadata |-> None]

\* EncryptionKey::with_metadata
with_metadata(self, metadata) == [self EXCEPT !.key_metadata = Some(metadata)]

\* EncryptionPropertiesBuilder::new(footer_key) ... build()
EncryptionPropertiesBuilder_new(footer_key) ==
    [footer_key |-> EncryptionKey_new(footer_key),
     column_keys |-> << >>,
     aad_prefix |-> None,
     encrypt_footer |-> TRUE,
     store_aad_prefix |-> TRUE]

\* EncryptionPropertiesBuilder::with_column_key
with_column_key(self, column_path, encryption_key) ==
    [self EXCEPT !.column_keys =
        [p \in DOMAIN self.column_keys \cup {column_path} |->
            IF p = column_path THEN encryption_key ELSE self.column_keys[p]]]

\* HashMap::is_empty on column_keys
is_empty(column_keys) == DOMAIN column_keys = {}

\* variant: the prefix is left out of file_aad
FileEncryptor_new_no_prefix(properties, unique) ==
    [properties |-> properties, aad_file_unique |-> unique, file_aad |-> unique]

\* FileEncryptor::new; unique is what the RNG fills in for aad_file_unique
FileEncryptor_new(properties, unique) ==
    LET file_aad == IF properties.aad_prefix.some
                    THEN properties.aad_prefix.val \o unique
                    ELSE unique
    IN  [properties |-> properties, aad_file_unique |-> unique, file_aad |-> file_aad]

\* FileEncryptor::is_column_encrypted
is_column_encrypted(self, column_path) ==
    IF is_empty(self.properties.column_keys)
    THEN TRUE
    ELSE column_path \in DOMAIN self.properties.column_keys

\* FileEncryptor::get_footer_encryptor
get_footer_encryptor(self, buf) ==
    RingGcmBlockEncryptor_new(self.properties.footer_key.key, buf)

\* variant: the uniform case is not special
get_column_encryptor_no_uniform(self, column_path, buf) ==
    IF column_path \notin DOMAIN self.properties.column_keys
    THEN Err("Column is not encrypted")
    ELSE RingGcmBlockEncryptor_new(self.properties.column_keys[column_path].key, buf)

\* variant: a column without a key gets the footer key
get_column_encryptor_fallback(self, column_path, buf) ==
    IF column_path \notin DOMAIN self.properties.column_keys
    THEN get_footer_encryptor(self, buf)
    ELSE RingGcmBlockEncryptor_new(self.properties.column_keys[column_path].key, buf)

\* FileEncryptor::get_column_encryptor
get_column_encryptor(self, column_path, buf) ==
    IF is_empty(self.properties.column_keys)
    THEN get_footer_encryptor(self, buf)
    ELSE IF column_path \notin DOMAIN self.properties.column_keys
    THEN Err("Column is not encrypted")
    ELSE RingGcmBlockEncryptor_new(self.properties.column_keys[column_path].key, buf)

\* ColumnCryptoMetaData
EncryptionWithFooterKey == [kind |-> "EncryptionWithFooterKey"]
EncryptionWithColumnKey(path_in_schema, key_metadata) ==
    [kind |-> "EncryptionWithColumnKey", path_in_schema |-> path_in_schema,
     key_metadata |-> key_metadata]

\* variant: a column without a key is reported under the footer key
get_column_crypto_metadata_footer_fallback(properties, column) ==
    IF column.path.string \notin DOMAIN properties.column_keys
    THEN Some(EncryptionWithFooterKey)
    ELSE Some(EncryptionWithColumnKey(column.path.parts,
                  properties.column_keys[column.path.string].key_metadata))

\* get_column_crypto_metadata; a column descriptor is its path, the path
\* being its parts and the string they join to
get_column_crypto_metadata(properties, column) ==
    IF is_empty(properties.column_keys)
    THEN Some(EncryptionWithFooterKey)
    ELSE IF column.path.string \notin DOMAIN properties.column_keys
    THEN None
    ELSE Some(EncryptionWithColumnKey(column.path.parts,
                  properties.column_keys[column.path.string].key_metadata))

(***************************************************************************)
(* PageEncryptor (page_encryptor.rs)                                       *)
(***************************************************************************)
DataPageTypes == {"DATA_PAGE", "DATA_PAGE_V2"}
PageTypes == {"DATA_PAGE", "INDEX_PAGE", "DICTIONARY_PAGE", "DATA_PAGE_V2"}

\* Page::is_data_page
is_data_page(page) == page.page_type \in DataPageTypes

\* the compact-protocol bytes of a PageHeader: opaque, one byte per page type
write_to_out_protocol(page_header) ==
    IF page_header.type_ = "DATA_PAGE" THEN <<21>>
    ELSE IF page_header.type_ = "INDEX_PAGE" THEN <<22>>
    ELSE IF page_header.type_ = "DICTIONARY_PAGE" THEN <<23>>
    ELSE <<24>>

\* encryption::modules::create_module_aad as PageEncryptor calls it: indices
\* are usize and the page ordinal is an Option
modules_create_module_aad(file_aad, module_type, row_group_idx, column_ordinal, page_ordinal) ==
    create_module_aad(file_aad, module_type, row_group_idx, column_ordinal,
                      IF page_ordinal.some THEN page_ordinal.val ELSE NON_PAGE_ORDINAL)

\* PageEncryptor::create_if_column_encrypted
create_if_column_encrypted(file_enc, row_group_index, column_index, column_path) ==
    IF file_enc.some /\ is_column_encrypted(file_enc.val, column_path)
    THEN Some([row_group_index |-> row_group_index,
               column_index |-> column_index,
               column_path |-> column_path,
               page_index |-> 0])
    ELSE None

\* variant: the index is set, not advanced
increment_page_set(self) == [self EXCEPT !.page_index = 1]

\* PageEncryptor::increment_page
increment_page(self) == [self EXCEPT !.page_index = self.page_index + 1]

\* the tail shared by encrypt_page and encrypt_page_header: AAD, column
\* encryptor, encrypt; `?` returns the first error; next to the result, the
\* module type and page ordinal create_module_aad was called with, the AAD
\* and the key
encrypt_module(self, file_enc, module_type, plaintext, buf) ==
    LET aad == modules_create_module_aad(file_enc.file_aad, module_type,
                   self.row_group_index, self.column_index, Some(self.page_index))
        encryptor == get_column_encryptor(file_enc, self.column_path, buf)
        called == [module_type |-> Some(module_type),
                   page_ordinal |-> Some(self.page_index), aad |-> aad]
    IN  IF ~ IsOk(aad) THEN [res |-> aad, key |-> None] @@ called
        ELSE IF ~ IsOk(encryptor) THEN [res |-> encryptor, key |-> None] @@ called
        ELSE [res |-> encrypt(encryptor.val, plaintext, aad.val).res,
              key |-> Some(encryptor.val.key)] @@ called

\* variant: the page is counted before its body is encrypted
encrypt_page_counted_first(self, file_enc, page, buf) ==
    LET module_type == IF is_data_page(page) THEN DataPage ELSE DictionaryPage
    IN  encrypt_module(increment_page(self), file_enc, module_type, page.data, buf)

\* PageEncryptor::encrypt_page
encrypt_page(self, file_enc, page, buf) ==
    LET module_type == IF is_data_page(page) THEN DataPage ELSE DictionaryPage
    IN  encrypt_module(self, file_enc, module_type, page.data, buf)

\* variant: every page type that is not a data page is taken for a dictionary page
encrypt_page_header_no_default(self, file_enc, page_header, buf) ==
    IF page_header.type_ \in DataPageTypes
    THEN encrypt_module(self, file_enc, DataPageHeader,
                        write_to_out_protocol(page_header), buf)
    ELSE encrypt_module(self, file_enc, DictionaryPageHeader,
                        write_to_out_protocol(page_header), buf)

\* PageEncryptor::encrypt_page_header
encrypt_page_header(self, file_enc, page_header, buf) ==
    IF page_header.type_ \in DataPageTypes
    THEN encrypt_module(self, file_enc, DataPageHeader,
                        write_to_out_protocol(page_header), buf)
    ELSE IF page_header.type_ = "DICTIONARY_PAGE"
    THEN encrypt_module(self, file_enc, DictionaryPageHeader,
                        write_to_out_protocol(page_header), buf)
    ELSE [res |-> Err("Unsupported page type for page header encryption"),
          module_type |-> None, page_ordinal |-> None, aad |-> None, key |-> None]

(***************************************************************************)
(* File level: one FileEncryptor, the block encryptor its caller holds,    *)
(* and one PageEncryptor at a time                                         *)
(***************************************************************************)
ColumnPaths == {"col_a", "col_b"}
\* the column chunks a PageEncryptor is created for
Chunks == {[row_group_index |-> 0, column_index |-> 0, column_path |-> "col_a"],
           [row_group_index |-> 1, column_index |-> 2, column_path |-> "col_b"]}
\* what SystemRandom may put in the nonce buffer of an encryptor of the file
FileBufs == {BufZero, BufOne}

\* the properties a writer may be configured with
PropertiesSet ==
    LET uniform == EncryptionPropertiesBuilder_new(KeyF)
        selective == with_column_key(uniform, "col_a",
                         with_metadata(EncryptionKey_new(KeyA), <<107>>))
    IN  {uniform,
         [uniform EXCEPT !.aad_prefix = Some(<<80>>)],
         selective,
         with_column_key(uniform, "grp.col_c", EncryptionKey_new(KeyA))}

\* what SystemRandom may put in aad_file_unique
FileUniques == {<<1, 2, 3, 4, 5, 6, 7, 8>>}

\* the column descriptors of the schema
Columns == {[path |-> [string |-> "col_a", parts |-> <<"col_a">>]],
            [path |-> [string |-> "col_b", parts |-> <<"col_b">>]],
            [path |-> [string |-> "grp.col_c", parts |-> <<"grp", "col_c">>]]}

Pages == {[page_type |-> t, data |-> <<1, 2>>] :
            t \in {"DATA_PAGE", "DICTIONARY_PAGE", "DATA_PAGE_V2"}}
PageHeaders == {[type_ |-> t] : t \in PageTypes}
Objects == {<<25>>}

\* the seal of one more module under <<key, nonce>>
Seal(key, nonce) ==
    /\ sealed' = sealed \cup {<<key, nonce>>}
    /\ nonce_shared' = (nonce_shared \/ <<key, nonce>> \in sealed)

\* FileEncryptor::is_column_encrypted(column_path)
IsColumnEncrypted(column_path) ==
    /\ out' = [op |-> "is_column_encrypted", column_path |-> column_path,
               res |-> is_column_encrypted(file_encryptor.val, column_path)]
    /\ UNCHANGED <<file_decryptor, file_encryptor, page_encryptor, increments, emitted,
                   block_encryptor, calls, fails,
                   nonces, sealed, nonce_shared>>

\* get_column_crypto_metadata(file_encryptor.properties(), column)
GetColumnCryptoMetadata(column) ==
    /\ out' = [op |-> "get_column_crypto_metadata", column |-> column,
               res |-> get_column_crypto_metadata(file_encryptor.val.properties, column)]
    /\ UNCHANGED <<file_decryptor, file_encryptor, page_encryptor, increments, emitted,
                   block_encryptor, calls, fails, nonces, sealed, nonce_shared>>

\* take the encryptor a getter returned
Hold(op, column_path, r) ==
    /\ block_encryptor' = IF IsOk(r) THEN Some(r.val) ELSE block_encryptor
    /\ calls' = IF IsOk(r) THEN 0 ELSE calls
    /\ fails' = IF IsOk(r) THEN 0 ELSE fails
    /\ nonces' = IF IsOk(r) THEN << >> ELSE nonces
    /\ out' = [op |-> op, column_path |-> column_path, res |-> r]
    /\ UNCHANGED <<file_decryptor, file_encryptor, page_encryptor, increments, emitted,
                   sealed, nonce_shared>>

\* FileEncryptor::get_footer_encryptor()
GetFooterEncryptor(buf) ==
    Hold("get_footer_encryptor", None, get_footer_encryptor(file_encryptor.val, buf))

\* FileEncryptor::get_column_encryptor(column_path)
GetColumnEncryptor(column_path, buf) ==
    Hold("get_column_encryptor", Some(column_path),
         get_column_encryptor(file_encryptor.val, column_path, buf))

\* encrypt_object_to_vec(object, encryptor, module_aad) with the held encryptor
EncryptObject(object, module_aad) ==
    /\ block_encryptor.some
    /\ calls < MaxCalls
    /\ Cardinality(sealed) < MaxSealed
    /\ LET r == encrypt(block_encryptor.val, object, module_aad) IN
       /\ block_encryptor' = Some(r.self)
       /\ calls' = IF IsOk(r.res) THEN calls + 1 ELSE calls
       /\ fails' = IF IsOk(r.res) THEN fails ELSE fails + 1
       /\ nonces' = IF IsOk(r.res)
                    THEN RecordNonce(nonces, decrypt_nonce(r.res.val))
                    ELSE nonces
       /\ IF IsOk(r.res)
          THEN Seal(block_encryptor.val.key, decrypt_nonce(r.res.val))
          ELSE UNCHANGED <<sealed, nonce_shared>>
       /\ out' = [op |-> "encrypt_object", key |-> block_encryptor.val.key,
                  plaintext |-> object, aad |-> module_aad, res |-> r.res]
    /\ UNCHANGED <<file_decryptor, file_encryptor, page_encryptor, increments, emitted>>

\* PageEncryptor::create_if_column_encrypted
CreateIfColumnEncrypted(row_group_index, column_index, column_path) ==
    /\ page_encryptor' = create_if_column_encrypted(file_encryptor, row_group_index,
                                                    column_index, column_path)
    /\ increments' = 0
    /\ emitted' = << >>
    /\ out' = [op |-> "create_if_column_encrypted", column_path |-> column_path,
               res |-> page_encryptor'.some]
    /\ UNCHANGED <<file_decryptor, file_encryptor, block_encryptor, calls, fails,
                   nonces, sealed, nonce_shared>>

\* PageEncryptor::increment_page
IncrementPage ==
    /\ page_encryptor.some
    /\ page_encryptor.val.page_index < MaxPages
    /\ page_encryptor' = Some(increment_page(page_encryptor.val))
    /\ increments' = increments + 1
    /\ out' = [op |-> "increment_page"]
    /\ UNCHANGED <<file_decryptor, file_encryptor, block_encryptor, calls, fails,
                   nonces, sealed, nonce_shared, emitted>>

\* what encrypt_page and encrypt_page_header leave behind; whether the
\* module goes into a column chunk is the caller's business
Emit(op, page_type, r) ==
    /\ IF IsOk(r.res)
       THEN Seal(r.key.val, decrypt_nonce(r.res.val))
       ELSE UNCHANGED <<sealed, nonce_shared>>
    /\ out' = [op |-> op, page_type |-> page_type, module_type |-> r.module_type,
               page_ordinal |-> r.page_ordinal, aad |-> r.aad, key |-> r.key,
               res |-> r.res,
               sink |-> IF op = "encrypt_page_header" /\ IsOk(r.res)
                        THEN r.res.val ELSE << >>]
    /\ UNCHANGED <<file_decryptor, file_encryptor, page_encryptor, increments,
                   block_encryptor, calls, fails, nonces>>

\* PageEncryptor::encrypt_page(page)
EncryptPage(page, buf) ==
    /\ page_encryptor.some
    /\ Emit("encrypt_page", page.page_type,
            encrypt_page(page_encryptor.val, file_encryptor.val, page, buf))

\* PageEncryptor::encrypt_page_header(page_header, sink)
EncryptPageHeader(page_header, buf) ==
    /\ page_encryptor.some
    /\ Emit("encrypt_page_header", page_header.type_,
            encrypt_page_header(page_encryptor.val, file_encryptor.val,
                                page_header, buf))

Init ==
    /\ \E properties \in PropertiesSet, unique \in FileUniques :
          file_encryptor = Some(FileEncryptor_new(properties, unique))
    /\ page_encryptor = None
    /\ block_encryptor = None
    /\ calls = 0
    /\ fails = 0
    /\ nonces = << >>
    /\ sealed = {}
    /\ nonce_shared = FALSE
    /\ file_decryptor = None
    /\ increments = 0
    /\ emitted = << >>
    /\ out = Idle

Next ==
    \/ \E column_path \in ColumnPaths : IsColumnEncrypted(column_path)
    \/ \E column \in Columns : GetColumnCryptoMetadata(column)
    \/ \E buf \in FileBufs : GetFooterEncryptor(buf)
    \/ \E column_path \in ColumnPaths, buf \in FileBufs :
          GetColumnEncryptor(column_path, buf)
    \/ \E object \in Objects :
          EncryptObject(object, create_footer_aad(file_encryptor.val.file_aad).val)
    \/ \E chunk \in Chunks :
          CreateIfColumnEncrypted(chunk.row_group_index, chunk.column_index,
                                  chunk.column_path)
    \/ IncrementPage
    \/ /\ Cardinality(sealed) < MaxSealed
       /\ \E page \in Pages, buf \in FileBufs : EncryptPage(page, buf)
       /\ UNCHANGED emitted
    \/ /\ Cardinality(sealed) < MaxSealed
       /\ \E page_header \in PageHeaders, buf \in FileBufs :
             EncryptPageHeader(page_header, buf)
       /\ UNCHANGED emitted

Spec == Init /\ [][Next]_vars

(***************************************************************************)
(* A column chunk written in order: for each page its header, its body,    *)
(* then increment_page; a dictionary page, if any, comes first             *)
(***************************************************************************)
\* the module just encrypted joins the chunk
Logged ==
    emitted' = IF IsOk(out'.res)
               THEN Append(emitted, [op |-> out'.op, page_type |-> out'.page_type,
                                     module_type |-> out'.module_type.val,
                                     page_ordinal |-> out'.page_ordinal,
                                     aad |-> out'.aad.val])
               ELSE emitted

OpenChunk(chunk) ==
    /\ ~ page_encryptor.some
    /\ CreateIfColumnEncrypted(chunk.row_group_index, chunk.column_index,
                               chunk.column_path)

WritePageHeader(page_header, buf) ==
    /\ page_encryptor.some
    /\ Len(emitted) = 2 * increments
    /\ page_header.type_ = "DICTIONARY_PAGE" => increments = 0
    /\ EncryptPageHeader(page_header, buf)
    /\ Logged

WritePage(page, buf) ==
    /\ page_encryptor.some
    /\ Len(emitted) = 2 * increments + 1
    /\ page.page_type = emitted[Len(emitted)].page_type
    /\ EncryptPage(page, buf)
    /\ Logged

FinishPage ==
    /\ Len(emitted) = 2 * increments + 2
    /\ IncrementPage

NextChunk ==
    \/ \E chunk \in Chunks : OpenChunk(chunk)
    \/ \E page_header \in PageHeaders, buf \in FileBufs : WritePageHeader(page_header, buf)
    \/ \E page \in Pages, buf \in FileBufs : WritePage(page, buf)
    \/ FinishPage

SpecChunk == Init /\ [][NextChunk]_vars

\* what a reader that walks the chunk in file order takes the module in
\* position j of the chunk (from 1: header, body, header, body, ...) to be
reader_module_type(page_type, j) ==
    IF page_type = "DICTIONARY_PAGE"
    THEN (IF j % 2 = 1 THEN DictionaryPageHeader ELSE DictionaryPage)
    ELSE (IF j % 2 = 1 THEN DataPageHeader ELSE DataPage)

reader_page_ordinal(j) == (j - 1) \div 2

(***************************************************************************)
(* Properties                                                              *)
(***************************************************************************)
EncryptedOk == out.op = "encrypt" /\ IsOk(out.res)

\* C1 (SpecCipher): on one block encryptor the i-th nonce written into a
\* frame is the 12-byte little-endian encoding of (start + i) mod 2^96, and
\* the nonces of successive encrypt calls are pairwise distinct.
C1_NonceSequence ==
    block_encryptor.some =>
        LET start == block_encryptor.val.nonce_sequence.start IN
        /\ Len(nonces) = calls
        /\ \A i \in 1..Len(nonces) :
              /\ Len(nonces[i]) = NONCE_LEN
              /\ FromLe(nonces[i], CounterRadix) = (start + i) % NONCE_MOD
        /\ \A i, j \in 1..Len(nonces) : i # j => nonces[i] # nonces[j]
        /\ EncryptedOk => SubSeq(out.res.val, 5, 16) = nonces[calls]

\* the counter wrapped to zero on the way: start is 2^96 - 1
C1_Witness ==
    /\ block_encryptor.some
    /\ block_encryptor.val.nonce_sequence.start = RIGHT_TWELVE
    /\ Len(nonces) >= 2
    /\ EncryptedOk

\* C2 (Spec): for a given key no two encryptions of the file share a nonce.
C2_NonceUniquePerKey == ~ nonce_shared

C3_State ==
    block_encryptor.some =>
        /\ calls <= RIGHT_TWELVE
        /\ IsOk(advance(block_encryptor.val.nonce_sequence).res) <=> calls < RIGHT_TWELVE
        /\ fails > 0 => calls = RIGHT_TWELVE
        /\ (out.op = "advance" /\ ~ IsOk(out.res)) => out.res = Err("Unspecified")
        /\ (out.op = "encrypt" /\ ~ IsOk(out.res)) => out.res = Panic("Unspecified")

C3_Step ==
    /\ fails' > fails =>
          /\ block_encryptor' = block_encryptor
          /\ nonces' = nonces
          /\ calls' = calls
          /\ ~ IsOk(out'.res)
    /\ fails' = fails => (calls' = calls + 1 /\ IsOk(out'.res))

\* C3 (SpecNonce): the first 2^96 - 1 advances succeed and every later one
\* fails; a failing call returns no nonce and no frame and leaves start and
\* counter as they were.
C3_Exhaustion == [] C3_State /\ [][C3_Step]_vars

\* an encrypt refused after an earlier refusal
C3_Witness ==
    /\ calls = RIGHT_TWELVE
    /\ fails >= 2
    /\ out.op = "encrypt"
    /\ IsPanic(out.res)

Decrypted == out.op = "decrypt"

\* C4 (SpecCipher): decrypting a frame under the key and the AAD it was
\* encrypted with returns the plaintext.
C4_RoundTrip ==
    (Decrypted /\ out.key = out.of.key /\ out.aad = out.of.aad) =>
        out.res = Ok(out.of.plaintext)

C4_Witness ==
    /\ Decrypted
    /\ out.key = out.of.key
    /\ out.aad = out.of.aad
    /\ Len(out.of.plaintext) = 2
    /\ IsOk(out.res)

\* C5 (SpecCipher): decrypting under another AAD returns the authentication
\* failure to the caller as an error value.
C5_AadBinding ==
    (Decrypted /\ out.key = out.of.key /\ out.aad # out.of.aad) => IsErr(out.res)

\* C6 (SpecCipher): the frame is length prefix, nonce, ciphertext, tag; it is
\* 4 + 12 + len(p) + 16 bytes long and its first four bytes read as a
\* little-endian i32 are 12 + len(p) + 16.
C6_FrameFormat ==
    EncryptedOk =>
        LET frame == out.res.val
            n == Len(out.plaintext)
            nonce == SubSeq(frame, 5, 16)
            ciphertext == SubSeq(frame, 17, 16 + n)
        IN  /\ Len(frame) = 4 + 12 + n + 16
            /\ i32_from_le_bytes(SubSeq(frame, 1, 4)) = 12 + n + 16
            /\ nonce = nonces[calls]
            /\ ciphertext = SealBytes(out.key, nonce, out.plaintext)
            /\ SubSeq(frame, 17 + n, 32 + n) = Tag(out.key, nonce, out.aad, ciphertext)

\* a frame whose length needs the second byte of the prefix
C6_Witness ==
    /\ EncryptedOk
    /\ Len(out.plaintext) + 28 >= 256
    /\ out.res.val[2] = 1

\* the module AAD bytes, with the page ordinal present for pageModules only
AadShape(pageModules) ==
    (out.op = "create_module_aad" /\ IsOk(out.res)) =>
        LET aad == out.res.val
            n == Len(out.file_aad)
            ordinals ==
                /\ SubSeq(aad, 1, n + 1) = out.file_aad \o <<out.module_type>>
                /\ FromLe(SubSeq(aad, n + 2, n + 3), 256) = out.row_group_ordinal
                /\ FromLe(SubSeq(aad, n + 4, n + 5), 256) = out.column_ordinal
        IN  IF out.module_type = Footer
            THEN aad = out.file_aad \o <<Footer>>
            ELSE IF out.module_type \in pageModules
            THEN /\ Len(aad) = n + 7
                 /\ ordinals
                 /\ FromLe(SubSeq(aad, n + 6, n + 7), 256) = out.page_ordinal
            ELSE /\ Len(aad) = n + 5
                 /\ ordinals

\* C7 as stated (SpecAad): all four page modules carry the page ordinal.
C7_AadShape_AllPageModules ==
    AadShape({DataPage, DictionaryPage, DataPageHeader, DictionaryPageHeader})

\* C7 (SpecAad): the footer AAD is file_aad and the tag byte; the AAD of
\* DataPage and DataPageHeader carries row group, column and page ordinal
\* (+7); the AAD of every other module, DictionaryPage and
\* DictionaryPageHeader included, carries row group and column only (+5).
C7_AadShape == AadShape({DataPage, DataPageHeader})

C7_Witness ==
    /\ out.op = "create_module_aad"
    /\ out.module_type = DictionaryPage
    /\ out.page_ordinal = 7
    /\ IsOk(out.res)
    /\ Len(out.res.val) = Len(out.file_aad) + 5

\* when create_module_aad fails, the page ordinal being checked for
\* pageModules only
AadValidation(pageModules) ==
    /\ out.op = "create_module_aad" =>
          /\ IsErr(out.res) <=>
                /\ out.module_type # Footer
                /\ \/ out.row_group_ordinal < 0
                   \/ out.column_ordinal < 0
                   \/ /\ out.module_type \in pageModules
                      /\ (out.page_ordinal < 0 \/ out.page_ordinal > 32767)
          /\ IsOk(out.res) \/ IsErr(out.res)
    /\ out.op = "create_footer_aad" => IsOk(out.res)

\* C8 as stated (SpecAad): the page ordinal is checked for every page module.
C8_AadValidation_AllPageModules ==
    AadValidation({DataPage, DictionaryPage, DataPageHeader, DictionaryPageHeader})

\* C8 (SpecAad): a non-footer module with a negative row-group or column
\* ordinal is an error; a page ordinal that is negative or above 32767 is an
\* error for DataPage and DataPageHeader and is not looked at for any other
\* module; everything else is Ok.
C8_AadValidation == AadValidation({DataPage, DataPageHeader})

C8_Witness ==
    /\ out.op = "create_module_aad"
    /\ out.module_type = DictionaryPageHeader
    /\ out.page_ordinal > 32767
    /\ out.row_group_ordinal >= 0
    /\ out.column_ordinal >= 0
    /\ IsOk(out.res)

Uniform == file_encryptor.some /\ is_empty(file_encryptor.val.properties.column_keys)
Selective == file_encryptor.some /\ ~ is_empty(file_encryptor.val.properties.column_keys)

\* C9 (Spec): with no column keys every column is encrypted and every
\* column gets an encryptor on the footer key.
C9_UniformRouting ==
    Uniform =>
        /\ out.op = "is_column_encrypted" => out.res = TRUE
        /\ out.op = "get_column_encryptor" =>
              /\ IsOk(out.res)
              /\ out.res.val.key = file_encryptor.val.properties.footer_key.key
        /\ out.op = "create_if_column_encrypted" => out.res = TRUE

C9_Witness ==
    /\ Uniform
    /\ out.op = "get_column_encryptor"
    /\ out.column_path = Some("col_b")
    /\ IsOk(out.res)

\* C10 (Spec): with column keys, a column gets an encryptor exactly when it
\* has a key, which is when is_column_encrypted holds; the encryptor is on
\* that column's key; any other column is the not-encrypted error.
C10_SelectiveRouting ==
    Selective =>
        LET column_keys == file_encryptor.val.properties.column_keys IN
        /\ out.op = "is_column_encrypted" =>
              out.res = (out.column_path \in DOMAIN column_keys)
        /\ out.op = "get_column_encryptor" =>
              LET path == out.column_path.val IN
              /\ IsOk(out.res) <=> path \in DOMAIN column_keys
              /\ IsOk(out.res) <=> is_column_encrypted(file_encryptor.val, path)
              /\ IsOk(out.res) => out.res.val.key = column_keys[path].key
              /\ ~ IsOk(out.res) => out.res = Err("Column is not encrypted")

C10_Witness ==
    /\ Selective
    /\ out.op = "get_column_encryptor"
    /\ out.column_path = Some("col_a")
    /\ IsOk(out.res)
    /\ out.res.val.key # file_encryptor.val.properties.footer_key.key

\* C11 (Spec): get_column_crypto_metadata is EncryptionWithFooterKey for every
\* column when there are no column keys; with column keys it is
\* EncryptionWithColumnKey with the column's path parts and its key's
\* key_metadata for a column in the map and nothing for any other column; so
\* it is something exactly when is_column_encrypted holds.
C11_ColumnCryptoMetadata ==
    out.op = "get_column_crypto_metadata" =>
        LET column_keys == file_encryptor.val.properties.column_keys
            path == out.column.path
        IN  /\ Uniform => out.res = Some([kind |-> "EncryptionWithFooterKey"])
            /\ (Selective /\ path.string \in DOMAIN column_keys) =>
                  /\ out.res.some
                  /\ out.res.val.kind = "EncryptionWithColumnKey"
                  /\ out.res.val.path_in_schema = path.parts
                  /\ out.res.val.key_metadata = column_keys[path.string].key_metadata
            /\ (Selective /\ path.string \notin DOMAIN column_keys) => out.res = None
            /\ out.res.some <=> is_column_encrypted(file_encryptor.val, path.string)

\* a column key with key metadata, reported for its column
C11_Witness ==
    /\ Selective
    /\ out.op = "get_column_crypto_metadata"
    /\ out.res.some
    /\ out.res.val.kind = "EncryptionWithColumnKey"
    /\ out.res.val.key_metadata = Some(<<107>>)

C12_State ==
    /\ page_encryptor.some => page_encryptor.val.page_index = increments
    /\ (out.op = "create_if_column_encrypted" /\ out.res) =>
          (page_encryptor.some /\ page_encryptor.val.page_index = 0)

C12_Step ==
    (page_encryptor.some /\ out'.op # "create_if_column_encrypted") =>
        /\ page_encryptor'.some
        /\ page_encryptor'.val.page_index >= page_encryptor.val.page_index
        /\ out'.op = "increment_page" =>
              page_encryptor'.val.page_index = page_encryptor.val.page_index + 1
        /\ out'.op # "increment_page" => page_encryptor' = page_encryptor

\* C12 (Spec): a PageEncryptor starts at page_index 0; whatever the order of
\* the calls, page_index is the number of increment_page calls made on it; it
\* never decreases, and only increment_page changes it.
C12_PageOrdinalMonotonic == [] C12_State /\ [][C12_Step]_vars

\* a page encrypted after two increments, other calls in between
C12_Witness ==
    /\ page_encryptor.some
    /\ increments = 2
    /\ page_encryptor.val.page_index = 2
    /\ out.op = "encrypt_page"
    /\ IsOk(out.res)
    /\ block_encryptor.some

\* C13 (SpecDecryptor): no operation on a FileDecryptor changes its
\* aad_file_unique; after update_aad it is what it was before.
C13_AadFileUniqueKept ==
    [][file_decryptor.some =>
          /\ file_decryptor'.some
          /\ aad_file_unique(file_decryptor'.val) = aad_file_unique(file_decryptor.val)]_vars

C14_State ==
    file_encryptor.some =>
        LET self == file_encryptor.val
            prefix == self.properties.aad_prefix
        IN  /\ Len(self.aad_file_unique) = 8
            /\ prefix.some =>
                  /\ Len(self.file_aad) = Len(prefix.val) + 8
                  /\ SubSeq(self.file_aad, 1, Len(prefix.val)) = prefix.val
                  /\ SubSeq(self.file_aad, Len(prefix.val) + 1, Len(self.file_aad))
                        = self.aad_file_unique
            /\ ~ prefix.some => self.file_aad = self.aad_file_unique

C14_Step ==
    /\ file_encryptor'.some
    /\ file_encryptor'.val.file_aad = file_encryptor.val.file_aad
    /\ file_encryptor'.val.aad_file_unique = file_encryptor.val.aad_file_unique

\* C14 (Spec): file_aad is aad_prefix followed by the 8-byte aad_file_unique
\* when a prefix is configured and aad_file_unique alone otherwise, and no
\* FileEncryptor or PageEncryptor operation changes either of them.
C14_FileAad == [] C14_State /\ [][C14_Step]_vars

\* a page encrypted, after an increment, under a file AAD with a prefix
C14_Witness ==
    /\ file_encryptor.val.properties.aad_prefix = Some(<<80>>)
    /\ file_encryptor.val.file_aad = <<80, 1, 2, 3, 4, 5, 6, 7, 8>>
    /\ increments > 0
    /\ out.op = "encrypt_page"
    /\ IsOk(out.res)
    /\ SubSeq(out.aad.val, 1, 9) = file_encryptor.val.file_aad

C16_State ==
    /\ (out.op = "encrypt_page" /\ out.module_type.some) =>
          out.module_type.val = IF out.page_type \in {"DATA_PAGE", "DATA_PAGE_V2"}
                                THEN DataPage ELSE DictionaryPage
    /\ out.op = "encrypt_page" => out.module_type.some
    /\ out.op = "encrypt_page_header" =>
          /\ out.page_type \in {"DATA_PAGE", "DATA_PAGE_V2"} =>
                out.module_type = Some(DataPageHeader)
          /\ out.page_type = "DICTIONARY_PAGE" =>
                out.module_type = Some(DictionaryPageHeader)
          /\ out.page_type \notin {"DATA_PAGE", "DATA_PAGE_V2", "DICTIONARY_PAGE"} =>
                /\ out.res = Err("Unsupported page type for page header encryption")
                /\ out.sink = << >>
          /\ IsOk(out.res) =>
                /\ out.sink # << >>
                /\ out.aad.val[Len(file_encryptor.val.file_aad) + 1] = out.module_type.val

C16_Step ==
    (out'.op = "encrypt_page_header" /\ ~ IsOk(out'.res)) =>
        /\ page_encryptor' = page_encryptor
        /\ sealed' = sealed

\* C16 (Spec): encrypt_page takes DataPage for a data page and
\* DictionaryPage otherwise; encrypt_page_header takes DataPageHeader for
\* DATA_PAGE and DATA_PAGE_V2 and DictionaryPageHeader for DICTIONARY_PAGE;
\* for any other page type it returns the unsupported-page-type error, the
\* sink gets nothing and page_index stays.
C16_ModuleTypeSelection == [] C16_State /\ [][C16_Step]_vars

\* an index page header refused on a PageEncryptor that has counted a page
C16_Witness ==
    /\ out.op = "encrypt_page_header"
    /\ out.page_type = "INDEX_PAGE"
    /\ IsErr(out.res)
    /\ page_encryptor.some
    /\ page_encryptor.val.page_index = 1

\* C15 (SpecChunk): in a column chunk written page by page as header, body,
\* increment_page, the header and the body of the i-th page (from 0, a
\* dictionary page being page 0) get an AAD built from the chunk's row group
\* and column and from page ordinal i, so module types and page ordinals
\* are those a reader finds walking the chunk in file order.
C15_Ordering ==
    page_encryptor.some =>
        \A j \in 1..Len(emitted) :
            LET e == emitted[j]
                self == page_encryptor.val
                i == reader_page_ordinal(j)
                module_type == reader_module_type(e.page_type, j)
            IN  /\ e.op = IF j % 2 = 1 THEN "encrypt_page_header" ELSE "encrypt_page"
                /\ j % 2 = 0 => e.page_type = emitted[j - 1].page_type
                /\ e.page_type = "DICTIONARY_PAGE" => i = 0
                /\ e.module_type = module_type
                /\ e.page_ordinal = Some(i)
                /\ e.aad = create_module_aad(file_encryptor.val.file_aad, module_type,
                                self.row_group_index, self.column_index, i).val

\* a dictionary page and the data page after it: the data page is page 1
C15_Witness ==
    /\ Len(emitted) = 4
    /\ increments = 1
    /\ emitted[1].module_type = DictionaryPageHeader
    /\ emitted[2].module_type = DictionaryPage
    /\ emitted[3].module_type = DataPageHeader
    /\ emitted[4].module_type = DataPage
    /\ emitted[4].page_ordinal = Some(1)
    /\ emitted[4].aad[Len(emitted[4].aad) - 1] = 1

\* C17 (SpecAad): for a fixed file_aad, two successful create_module_aad
\* calls that differ in module type, or (neither being the footer) in row
\* group or column ordinal, or (for DataPage and DataPageHeader) in page
\* ordinal, return different bytes.
C17_AadInjective ==
    (out.op = "create_module_aad" /\ IsOk(out.res)) =>
        \A module_type \in ModuleType, row_group_ordinal \in Ordinals,
           column_ordinal \in Ordinals, page_ordinal \in PageOrdinals :
            LET other == create_module_aad(out.file_aad, module_type, row_group_ordinal,
                                           column_ordinal, page_ordinal)
                differ ==
                    \/ module_type # out.module_type
                    \/ /\ module_type # Footer
                       /\ \/ row_group_ordinal # out.row_group_ordinal
                          \/ column_ordinal # out.column_ordinal
                    \/ /\ module_type \in {DataPage, DataPageHeader}
                       /\ page_ordinal # out.page_ordinal
            IN  (differ /\ IsOk(other)) => other.val # out.res.val

\* a data page header AAD, and the AAD of another page of the same column
\* chunk: the same up to the page ordinal
C17_Witness ==
    /\ out.op = "create_module_aad"
    /\ out.module_type = DataPageHeader
    /\ out.row_group_ordinal = 1
    /\ out.column_ordinal = 258
    /\ out.page_ordinal = 7
    /\ IsOk(out.res)
    /\ LET other == create_module_aad(out.file_aad, DataPageHeader, 1, 258, 258)
           n == Len(out.file_aad) + 5
       IN  /\ IsOk(other)
           /\ SubSeq(other.val, 1, n) = SubSeq(out.res.val, 1, n)
           /\ other.val # out.res.val

====
